---------------------------- MODULE Spec2Model ----------------------------
(***************************************************************************)
(* A model of the navigation merge step of nav/NavMerge.py and of the      *)
(* quaternion helpers of nav/utils/quaternion_utils.py.                    *)
(*                                                                         *)
(* Numbers.  The program computes with numpy floats.  The model computes   *)
(* with exact rationals: a number is a pair <<n, d>> in lowest terms with  *)
(* d > 0.  A square root is taken exactly, so the inputs that reach a      *)
(* norm are drawn from the values whose norm is rational.                  *)
(*                                                                         *)
(* Arrays.  A numpy array of length n is a function with domain 0..n-1,    *)
(* so that an index of the model is the index of the source.               *)
(***************************************************************************)
EXTENDS Integers, FiniteSets, TLC

VARIABLES
    pc,                \* "ready": inputs chosen, "done": the function returned
    fn,                \* the function under call
    args,              \* its arguments
    out,               \* its return value
    state,             \* merge_main chain: the state last returned
    prev_state,        \* merge_main chain: the prev_state of the last call
    new_measurements,  \* merge_main chain: the measurements of the last call
    steps              \* merge_main chain: the number of calls made

vars == <<pc, fn, args, out, state, prev_state, new_measurements, steps>>

-----------------------------------------------------------------------------
(* Bounds of the model *)

\* integer components of the vectors and quaternions drawn as inputs
MaxC == 1
\* integer components of the positions drawn as inputs of merge_accel
MaxP == 2
\* merge_main chain: the measurement times are 0..MaxTime
MaxTime == 2
\* merge_main chain: the number of calls
MaxSteps == 2
\* merge_main chain: a call is made from a state whose position and velocity
\* have numerators and denominators up to MaxMagnitude
MaxMagnitude == 100

-----------------------------------------------------------------------------
(* Exact rational arithmetic, standing for the float arithmetic of numpy *)

Abs(n) == IF n < 0 THEN -n ELSE n

RECURSIVE Gcd(_, _)
Gcd(a, b) == IF b = 0 THEN a ELSE Gcd(b, a % b)

Rat(n, d) ==
    LET g == Gcd(Abs(n), Abs(d))
        s == IF d < 0 THEN -1 ELSE 1
    IN  <<(s * n) \div g, (s * d) \div g>>

Num(n) == <<n, 1>>
Zero == Num(0)
One == Num(1)
Half == Rat(1, 2)

Add(x, y) ==
    IF x[2] = y[2]
    THEN Rat(x[1] + y[1], x[2])
    ELSE LET g == Gcd(x[2], y[2])
         IN  Rat(x[1] * (y[2] \div g) + y[1] * (x[2] \div g), (x[2] \div g) * y[2])
Neg(x) == <<-x[1], x[2]>>
Sub(x, y) == Add(x, Neg(y))
Mul(x, y) ==
    IF x[1] = 0 \/ y[1] = 0
    THEN Zero
    ELSE LET g == Gcd(Abs(x[1]), y[2])
             h == Gcd(Abs(y[1]), x[2])
         IN  Rat((x[1] \div g) * (y[1] \div h), (x[2] \div h) * (y[2] \div g))
Inv(x) == IF x[1] < 0 THEN <<-x[2], -x[1]>> ELSE <<x[2], x[1]>>
Div(x, y) == Mul(x, Inv(y))
Less(x, y) == x[1] * y[2] < y[1] * x[2]

\* the integer square root of n in lo..hi, by bisection
Mid(lo, hi) == (lo + hi + 1) \div 2
RECURSIVE Bisect(_, _, _)
Bisect(n, lo, hi) ==
    IF lo >= hi THEN lo
    ELSE IF Mid(lo, hi) * Mid(lo, hi) <= n
         THEN Bisect(n, Mid(lo, hi), hi)
         ELSE Bisect(n, lo, Mid(lo, hi) - 1)
ISqrt(n) == Bisect(n, 0, IF n < 46340 THEN n ELSE 46340)
IsSquareInt(n) == ISqrt(n) * ISqrt(n) = n
IsSquare(x) == x[1] >= 0 /\ IsSquareInt(x[1]) /\ IsSquareInt(x[2])
Sqrt(x) == <<ISqrt(x[1]), ISqrt(x[2])>>

-----------------------------------------------------------------------------
(* numpy: array, concatenate, dot, cross, norm and the array arithmetic *)

\* Python computes the value of an assignment, and the arguments of a call,
\* before it goes on: Then(value, Rest) is Rest(value) with value computed first.
Then(value, Rest(_)) == CHOOSE r \in {Rest(v) : v \in {value}} : TRUE

array1(x) == 0 :> x
array2(x, y) == (0 :> x) @@ (1 :> y)
array3(x, y, z) == (0 :> x) @@ (1 :> y) @@ (2 :> z)
array4(s, x, y, z) == (0 :> s) @@ (1 :> x) @@ (2 :> y) @@ (3 :> z)

\* concatenate([s], v) of a 1-array and a 3-array
concatenate(s, v) == array4(s[0], v[0], v[1], v[2])
\* a[1:] of a 4-array
Tail1(a) == array3(a[1], a[2], a[3])

\* the arrays of shape (3,): the vectors; the others here are quaternions
IsVector(a) == DOMAIN a = 0..2

\* a + b, a - b, k * a and a / k, element by element
VAdd(a, b) ==
    IF IsVector(a) /\ IsVector(b)
    THEN array3(Add(a[0], b[0]), Add(a[1], b[1]), Add(a[2], b[2]))
    ELSE array4(Add(a[0], b[0]), Add(a[1], b[1]), Add(a[2], b[2]), Add(a[3], b[3]))
VSub(a, b) ==
    IF IsVector(a) /\ IsVector(b)
    THEN array3(Sub(a[0], b[0]), Sub(a[1], b[1]), Sub(a[2], b[2]))
    ELSE array4(Sub(a[0], b[0]), Sub(a[1], b[1]), Sub(a[2], b[2]), Sub(a[3], b[3]))
Scale(k, a) ==
    IF IsVector(a)
    THEN array3(Mul(k, a[0]), Mul(k, a[1]), Mul(k, a[2]))
    ELSE array4(Mul(k, a[0]), Mul(k, a[1]), Mul(k, a[2]), Mul(k, a[3]))
VDiv(a, k) ==
    IF IsVector(a)
    THEN array3(Div(a[0], k), Div(a[1], k), Div(a[2], k))
    ELSE array4(Div(a[0], k), Div(a[1], k), Div(a[2], k), Div(a[3], k))

dot(a, b) ==
    IF IsVector(a) /\ IsVector(b)
    THEN Add(Add(Mul(a[0], b[0]), Mul(a[1], b[1])), Mul(a[2], b[2]))
    ELSE Add(Add(Add(Mul(a[0], b[0]), Mul(a[1], b[1])), Mul(a[2], b[2])),
             Mul(a[3], b[3]))
cross(a, b) ==
    array3(Sub(Mul(a[1], b[2]), Mul(a[2], b[1])),
           Sub(Mul(a[2], b[0]), Mul(a[0], b[2])),
           Sub(Mul(a[0], b[1]), Mul(a[1], b[0])))
Norm2(a) == dot(a, a)
norm(a) == Sqrt(Norm2(a))

-----------------------------------------------------------------------------
(* nav/utils/quaternion_utils.py *)

\* qcomp with the dot product added to the scalar part instead of subtracted
qcomp_DotAdded(q1, q2) ==
    LET q1s == q1[0]
        q1v == Tail1(q1)
        q2s == q2[0]
        q2v == Tail1(q2)
        s == array1(Add(Mul(q1s, q2s), dot(q2v, q1v)))
        v == VSub(VAdd(Scale(q1s, q2v), Scale(q2s, q1v)), cross(q1v, q2v))
    IN  concatenate(s, v)

qcomp(q1, q2) ==
    LET q1s == q1[0]
        q1v == Tail1(q1)
        q2s == q2[0]
        q2v == Tail1(q2)
        s == array1(Sub(Mul(q1s, q2s), dot(q2v, q1v)))
        v == VSub(VAdd(Scale(q1s, q2v), Scale(q2s, q1v)), cross(q1v, q2v))
    IN  concatenate(s, v)

\* qnorm dividing by the squared norm (the square root forgotten)
qnorm_BySquaredNorm(q) ==
    IF Norm2(q) # Zero
    THEN VDiv(q, Norm2(q))
    ELSE array4(Zero, Zero, Zero, Zero)

qnorm(q) ==
    IF norm(q) # Zero
    THEN VDiv(q, norm(q))
    ELSE array4(Zero, Zero, Zero, Zero)

\* qconjugate reading the scalar part at index 0
qconjugate_ScalarFirst(q) == concatenate(array1(q[0]), Scale(Num(-1), Tail1(q)))

qconjugate(q) == concatenate(array1(q[3]), Scale(Num(-1), Tail1(q)))

qvectransform(q, v) ==
    Then(concatenate(array1(Zero), v), LAMBDA qvec :
    Then(qcomp(qvec, qconjugate(q)), LAMBDA inner :
    Then(qcomp(q, inner), LAMBDA transformed :
    Tail1(transformed))))

-----------------------------------------------------------------------------
(* nav/utils/constants.py and nav/utils/common_utils.py *)

\* the gravitational parameter: a positive constant
G_E == Num(4)

\* sum(value_i * weight_i) / sum(weight_i), of two values
weighted_avg(values, weights) ==
    Div(Add(Mul(values[0], weights[0]), Mul(values[1], weights[1])),
        Add(weights[0], weights[1]))

-----------------------------------------------------------------------------
(* nav/NavMerge.py *)

Pow2(x) == Mul(x, x)
Pow3(x) == Mul(x, Mul(x, x))

\* merge_accel whose fallback returns the accel_c argument as it was given
merge_accel_RawFallback(prev_position, accel_nc, accel_c, q_body_to_inert) ==
    Then(qvectransform(q_body_to_inert, accel_nc), LAMBDA accel_nc_i :
    Then(qvectransform(q_body_to_inert, accel_c), LAMBDA accel_c_i :
    Then(norm(prev_position), LAMBDA p_prev_norm :
    IF p_prev_norm # Zero
    THEN LET accel_gravity == VDiv(Scale(G_E, prev_position), Pow3(p_prev_norm))
             accel_c_calculated == VSub(accel_nc_i, accel_gravity)
         IN  Scale(Half, VAdd(accel_c_i, accel_c_calculated))
    ELSE accel_c)))

\* merge_accel with the gravity term added instead of subtracted
merge_accel_GravityAdded(prev_position, accel_nc, accel_c, q_body_to_inert) ==
    Then(qvectransform(q_body_to_inert, accel_nc), LAMBDA accel_nc_i :
    Then(qvectransform(q_body_to_inert, accel_c), LAMBDA accel_c_i :
    Then(norm(prev_position), LAMBDA p_prev_norm :
    IF p_prev_norm # Zero
    THEN LET accel_gravity == VDiv(Scale(G_E, prev_position), Pow3(p_prev_norm))
             accel_c_calculated == VAdd(accel_nc_i, accel_gravity)
         IN  Scale(Half, VAdd(accel_c_i, accel_c_calculated))
    ELSE accel_c_i)))

merge_accel(prev_position, accel_nc, accel_c, q_body_to_inert) ==
    Then(qvectransform(q_body_to_inert, accel_nc), LAMBDA accel_nc_i :
    Then(qvectransform(q_body_to_inert, accel_c), LAMBDA accel_c_i :
    Then(norm(prev_position), LAMBDA p_prev_norm :
    IF p_prev_norm # Zero
    THEN LET accel_gravity == VDiv(Scale(G_E, prev_position), Pow3(p_prev_norm))
             accel_c_calculated == VSub(accel_nc_i, accel_gravity)
         IN  Scale(Half, VAdd(accel_c_i, accel_c_calculated))
    ELSE accel_c_i)))

merge_position(prev_position, prev_velocity, dt, accel_merged, gps, altitude) ==
    Then(VAdd(VAdd(prev_position, Scale(dt, prev_velocity)),
              Scale(Mul(Half, Pow2(dt)), accel_merged)), LAMBDA p_new_calc :
    Then(weighted_avg(array2(altitude, gps[2]), array2(One, One)), LAMBDA z_merged :
    Then(array3(gps[0], gps[1], z_merged), LAMBDA p_new_est :
    Scale(Half, VAdd(p_new_calc, p_new_est)))))

\* merge_velocity adding the acceleration without the time step
merge_velocity_NoDt(prev_velocity, dt, accel_merged) ==
    LET v_new == VAdd(prev_velocity, accel_merged)
    IN  v_new

merge_velocity(prev_velocity, dt, accel_merged) ==
    LET v_new == VAdd(prev_velocity, Scale(dt, accel_merged))
    IN  v_new

merge_attitude(prev_attitude, current_attitude, delta_theta) ==
    Then(qnorm(concatenate(array1(One), Scale(Half, delta_theta))),
         LAMBDA dq_inert_to_body :
    Then(qcomp(dq_inert_to_body, prev_attitude), LAMBDA q_inert_to_body_new_calc :
    Then(Scale(Half, VAdd(current_attitude, q_inert_to_body_new_calc)),
         LAMBDA q_inert_to_body_new :
    qnorm(q_inert_to_body_new))))

\* merge_main clamping a negative time step to zero
merge_main_ClampedDt(prev, new) ==
    LET prev_time == prev.time
        prev_position == prev.position
        prev_velocity == prev.velocity
        prev_attitude == prev.attitude
        altitude == new.altitude
        gps == new.gps
        ang_velocity == new.angular_velocity
        accel_nc == new.accel_nc
        accel_c == new.accel_c
        q_inert_to_body == new.q_inert_to_body
    IN  Then(IF Less(new.time, prev_time) THEN Zero ELSE Sub(new.time, prev_time), LAMBDA dt :
        Then(Scale(dt, ang_velocity), LAMBDA delta_theta :
        Then(qconjugate(q_inert_to_body), LAMBDA q_body_to_inert :
        Then(merge_accel(prev_position, accel_nc, accel_c, q_body_to_inert),
             LAMBDA accel_merged :
        [time |-> Add(prev_time, dt),
         position |-> merge_position(prev_position, prev_velocity, dt, accel_merged,
                                     gps, altitude),
         velocity |-> merge_velocity(prev_velocity, dt, accel_merged),
         attitude |-> merge_attitude(prev_attitude, q_inert_to_body, delta_theta)]))))

merge_main(prev, new) ==
    LET prev_time == prev.time
        prev_position == prev.position
        prev_velocity == prev.velocity
        prev_attitude == prev.attitude
        altitude == new.altitude
        gps == new.gps
        ang_velocity == new.angular_velocity
        accel_nc == new.accel_nc
        accel_c == new.accel_c
        q_inert_to_body == new.q_inert_to_body
    IN  Then(Sub(new.time, prev_time), LAMBDA dt :
        Then(Scale(dt, ang_velocity), LAMBDA delta_theta :
        Then(qconjugate(q_inert_to_body), LAMBDA q_body_to_inert :
        Then(merge_accel(prev_position, accel_nc, accel_c, q_body_to_inert),
             LAMBDA accel_merged :
        [time |-> Add(prev_time, dt),
         position |-> merge_position(prev_position, prev_velocity, dt, accel_merged,
                                     gps, altitude),
         velocity |-> merge_velocity(prev_velocity, dt, accel_merged),
         attitude |-> merge_attitude(prev_attitude, q_inert_to_body, delta_theta)]))))

-----------------------------------------------------------------------------
(* Inputs of the quaternion functions *)

Comps == {Num(n) : n \in -MaxC..MaxC}
HalfComps == {Rat(n, 2) : n \in (-2 * MaxC)..(2 * MaxC)}
Arrays(S, n) == [0..(n - 1) -> S]

\* quaternions and vectors with integer components
QInt == Arrays(Comps, 4)
VInt == Arrays(Comps, 3)
\* unit quaternions with half-integer components (the 24 Hurwitz units)
QUnit == {q \in Arrays(HalfComps, 4) : Norm2(q) = One}
\* the unit quaternions with integer components: 1, i, j, k and their negatives
QBasis == {q \in QInt : Norm2(q) = One}
\* i, j, k and (1 + i + j + k) / 2
QGen ==
    {array4(Zero, One, Zero, Zero), array4(Zero, Zero, One, Zero),
     array4(Zero, Zero, Zero, One), array4(Half, Half, Half, Half)}
\* quaternions whose norm is rational
QRatNorm == {q \in Arrays(HalfComps, 4) : IsSquare(Norm2(q))}

Identity == array4(One, Zero, Zero, Zero)
Idle == <<>>

-----------------------------------------------------------------------------
(* Calls of the quaternion functions: the inputs are drawn in Init, the    *)
(* action of a function applies it.                                        *)

NoChain ==
    state = Idle /\ prev_state = Idle /\ new_measurements = Idle /\ steps = 0

InitQcomp ==
    /\ pc = "ready"
    /\ out = Idle
    /\ NoChain
    /\ fn = "qcomp"
    /\ args \in [q1 : QInt \cup QUnit, q2 : QBasis, q3 : QGen]

InitQuat ==
    /\ pc = "ready"
    /\ out = Idle
    /\ NoChain
    /\ \/ fn = "qnorm" /\ args \in [q : QRatNorm]
       \/ fn = "qconjugate" /\ args \in [q : QInt \cup QUnit]
       \/ fn = "qvectransform" /\ args \in [q : QUnit, v : VInt]

Return(f, value) ==
    /\ pc = "ready"
    /\ fn = f
    /\ out' = value
    /\ pc' = "done"
    /\ UNCHANGED <<fn, args, state, prev_state, new_measurements, steps>>

Call_qcomp == Return("qcomp", qcomp(args.q1, args.q2))
Call_qnorm == Return("qnorm", qnorm(args.q))
Call_qconjugate == Return("qconjugate", qconjugate(args.q))
Call_qvectransform == Return("qvectransform", qvectransform(args.q, args.v))

NextQcomp == Call_qcomp

SpecQcomp == InitQcomp /\ [][NextQcomp]_vars

NextQuat == Call_qnorm \/ Call_qconjugate \/ Call_qvectransform

SpecQuat == InitQuat /\ [][NextQuat]_vars

-----------------------------------------------------------------------------
(* Calls of merge_accel and merge_velocity *)

Zero3 == array3(Zero, Zero, Zero)
Zero4 == array4(Zero, Zero, Zero, Zero)

\* positions whose norm is rational, the origin among them
PosInputs == {p \in Arrays({Num(n) : n \in -MaxP..MaxP}, 3) : IsSquare(Norm2(p))}
\* accelerations: the zero vector, the six axis vectors and one off-axis vector
AccelInputs ==
    {v \in VInt : Norm2(v) \in {Zero, One}} \cup {array3(One, Num(-1), One)}
\* non-conservative readings: none, and one off-axis reading
NcInputs == {Zero3, array3(Num(-1), One, One)}
\* attitudes: the unit quaternions and the zero quaternion
AttInputs == QUnit \cup {Zero4}

InitMerge ==
    /\ pc = "ready"
    /\ out = Idle
    /\ NoChain
    /\ \/ /\ fn = "merge_accel"
          /\ args \in [prev_position : PosInputs, accel_nc : NcInputs,
                       accel_c : AccelInputs, q_body_to_inert : AttInputs]
       \/ /\ fn = "merge_velocity"
          /\ args \in [prev_velocity : VInt, dt : HalfComps, accel_merged : AccelInputs]

Call_merge_accel ==
    Return("merge_accel", merge_accel(args.prev_position, args.accel_nc,
                                      args.accel_c, args.q_body_to_inert))
Call_merge_velocity ==
    Return("merge_velocity", merge_velocity(args.prev_velocity, args.dt,
                                            args.accel_merged))

NextMerge == Call_merge_accel \/ Call_merge_velocity

SpecMerge == InitMerge /\ [][NextMerge]_vars

-----------------------------------------------------------------------------
(* The chain of merge_main calls: the caller passes the state returned by  *)
(* one call as the prev_state of the next.                                 *)
(*                                                                         *)
(* The chain starts from the prev_state of the end-to-end scenario and the *)
(* measurements include the scenario's batch, with the magnitudes scaled   *)
(* to small rationals: the vehicle is at Radius on the z axis, the gravity *)
(* model gives G_E / Radius^2 = 1 there, and the measured conservative     *)
(* acceleration is -5/4 along z.                                           *)

Radius == Num(2)
OnAxis(z) == array3(Zero, Zero, z)
ScenarioAccelC == OnAxis(Rat(-5, 4))

ScenarioState ==
    [time |-> Zero, position |-> OnAxis(Radius), velocity |-> Zero3,
     attitude |-> Identity]

ScenarioMeasurement ==
    [time |-> One, altitude |-> Radius, gps |-> OnAxis(Radius),
     angular_velocity |-> Zero3, accel_nc |-> Zero3, accel_c |-> ScenarioAccelC,
     q_inert_to_body |-> Identity]

Times == {Num(t) : t \in 0..MaxTime}

MeasurementInputs ==
    [time : Times,
     altitude : {Radius, One},
     gps : {OnAxis(Radius)},
     angular_velocity : {Zero3, OnAxis(Rat(3, 2))},
     accel_nc : {Zero3, OnAxis(Half)},
     accel_c : {ScenarioAccelC},
     q_inert_to_body : {Identity, Zero4, array4(Zero, Zero, Zero, One)}]

\* The norms merge_main takes from prev and new are rational: the norm of
\* the previous position, of the small-angle quaternion and of the averaged
\* attitude.
RationalNorms(prev, new) ==
    Then(Scale(Sub(new.time, prev.time), new.angular_velocity), LAMBDA delta_theta :
    Then(concatenate(array1(One), Scale(Half, delta_theta)), LAMBDA dq :
    /\ IsSquare(Norm2(prev.position))
    /\ IsSquare(Norm2(dq))
    /\ Then(qnorm(dq), LAMBDA dq_inert_to_body :
       Then(qcomp(dq_inert_to_body, prev.attitude), LAMBDA q_inert_to_body_new_calc :
       IsSquare(Norm2(VAdd(new.q_inert_to_body, q_inert_to_body_new_calc)))))))

\* The magnitudes of prev stay within the integers of the model checker.
Small(x) == Abs(x[1]) <= MaxMagnitude /\ x[2] <= MaxMagnitude
Representable(prev) ==
    \A i \in 0..2 : Small(prev.position[i]) /\ Small(prev.velocity[i])

Init ==
    /\ pc = "ready"
    /\ fn = "merge_main"
    /\ args = Idle
    /\ out = Idle
    /\ state = ScenarioState
    /\ prev_state = Idle
    /\ new_measurements = Idle
    /\ steps = 0

\* the measurement batches the model can pass with prev
Measurements(prev) ==
    IF Representable(prev)
    THEN {new \in MeasurementInputs : RationalNorms(prev, new)}
    ELSE {}

MergeMain ==
    /\ steps < MaxSteps
    /\ \E new \in Measurements(state) :
        /\ state' = merge_main(state, new)
        /\ prev_state' = state
        /\ new_measurements' = new
    /\ steps' = steps + 1
    /\ UNCHANGED <<pc, fn, args, out>>

Next == MergeMain

Spec == Init /\ [][Next]_vars

-----------------------------------------------------------------------------
(* Claims about the quaternion functions *)

Returned(f) == pc = "done" /\ fn = f

\* C5: qcomp is associative, qcomp(qcomp(a,b),c) = qcomp(a,qcomp(b,c)), and
\* its result has scalar part q1s*q2s - dot(q2v,q1v) and vector part
\* q1s*q2v + q2s*q1v - cross(q1v,q2v).
C5_QcompAssociative ==
    Returned("qcomp") =>
        LET a == args.q1
            b == args.q2
            c == args.q3
        IN  /\ qcomp(out, c) = qcomp(a, qcomp(b, c))
            /\ out[0] = Sub(Mul(a[0], b[0]), dot(Tail1(b), Tail1(a)))
            /\ Tail1(out) = VSub(VAdd(Scale(a[0], Tail1(b)), Scale(b[0], Tail1(a))),
                                 cross(Tail1(a), Tail1(b)))

\* a non-unit a composed with b and c that do not commute
C5_Witness ==
    /\ Returned("qcomp")
    /\ Norm2(args.q1) \notin {Zero, One}
    /\ qcomp(args.q2, args.q3) # qcomp(args.q3, args.q2)
    /\ out # qcomp(args.q2, args.q1)
    /\ qcomp(out, args.q3) = qcomp(args.q1, qcomp(args.q2, args.q3))

\* C6: qnorm returns the all-zero quaternion for the all-zero input and, for
\* a nonzero input q, q divided by its Euclidean norm: a quaternion of norm 1
\* that is a positive multiple of q.
C6_QnormUnitOrZero ==
    Returned("qnorm") =>
        /\ DOMAIN out = 0..3
        /\ args.q = Zero4 => out = Zero4
        /\ args.q # Zero4 =>
            /\ out = VDiv(args.q, norm(args.q))
            /\ Norm2(out) = One
            /\ Less(Zero, norm(args.q))
            /\ Scale(norm(args.q), out) = args.q

\* a nonzero input that is not of norm 1 has been normalised
C6_Witness ==
    /\ Returned("qnorm")
    /\ Norm2(args.q) \notin {Zero, One}
    /\ out # args.q
    /\ Norm2(out) = One

C3_ConjugateIsInverse ==
    (Returned("qconjugate") /\ Norm2(args.q) = One) =>
        /\ out[0] = args.q[0]
        /\ Tail1(out) = Scale(Num(-1), Tail1(args.q))
        /\ qcomp(args.q, out) = Identity
        /\ qcomp(out, args.q) = Identity

\* C2: for a unit quaternion q and a vector v,
\* qvectransform(qconjugate(q), qvectransform(q, v)) = v.
C2_TransformRoundTrip ==
    (Returned("qvectransform") /\ Norm2(args.q) = One) =>
        qvectransform(qconjugate(args.q), out) = args.v

-----------------------------------------------------------------------------
(* Claims about merge_accel and merge_velocity *)

\* C1 as stated: merge_accel with prev_position = [0,0,0] returns exactly
\* the accel_c argument it was given, for every accel_nc, accel_c and
\* q_body_to_inert.
C1_FallbackReturnsRawAccelC ==
    (Returned("merge_accel") /\ args.prev_position = Zero3) => out = args.accel_c

\* C1 as amended: merge_accel with prev_position = [0,0,0] returns
\* qvectransform(q_body_to_inert, accel_c), the accel_c argument carried
\* through the frame transform, for every accel_nc, accel_c and
\* q_body_to_inert: neither accel_nc nor the gravity model enters.
C1_FallbackReturnsTransformedAccelC ==
    (Returned("merge_accel") /\ args.prev_position = Zero3) =>
        out = qvectransform(args.q_body_to_inert, args.accel_c)

\* at the origin, with a non-identity unit attitude and nonzero readings,
\* the value returned is not the accel_c argument
C1_Witness ==
    /\ Returned("merge_accel")
    /\ args.prev_position = Zero3
    /\ args.q_body_to_inert \notin {Identity, Zero4}
    /\ args.accel_nc # Zero3
    /\ args.accel_c # Zero3
    /\ out # args.accel_c
    /\ out # Zero3

InertialNC == qvectransform(args.q_body_to_inert, args.accel_nc)
InertialC == qvectransform(args.q_body_to_inert, args.accel_c)
\* G_E * p / |p|^3
GravityTerm == VDiv(Scale(G_E, args.prev_position), Pow3(norm(args.prev_position)))

\* C9 as stated: for a nonzero prev_position p, merge_accel returns
\* 0.5*(c_I + (n_I - g)) with g = -G_E * p / |p|^3.
C9_GravityTowardOriginSubtracted ==
    (Returned("merge_accel") /\ args.prev_position # Zero3) =>
        out = Scale(Half, VAdd(InertialC,
                               VSub(InertialNC, Scale(Num(-1), GravityTerm))))

\* C9 as amended: for a nonzero prev_position p, merge_accel returns
\* 0.5*(c_I + (n_I - g)) with g = +G_E * p / |p|^3 (no minus sign), where
\* n_I and c_I are accel_nc and accel_c carried through
\* qvectransform(q_body_to_inert, .).
C9_GravityTermSubtracted ==
    (Returned("merge_accel") /\ args.prev_position # Zero3) =>
        out = Scale(Half, VAdd(InertialC, VSub(InertialNC, GravityTerm)))

\* an off-axis position with nonzero inertial readings
C9_Witness ==
    /\ Returned("merge_accel")
    /\ \A i \in 0..2 : args.prev_position[i] # Zero
    /\ InertialNC # Zero3
    /\ InertialC # Zero3
    /\ InertialC # InertialNC
    /\ out = Scale(Half, VAdd(InertialC, VSub(InertialNC, GravityTerm)))

\* C7: merge_velocity(v, dt, a) returns v + a*dt, and so v itself when
\* dt = 0.
C7_VelocityIntegration ==
    Returned("merge_velocity") =>
        /\ \A i \in 0..2 :
              out[i] = Add(args.prev_velocity[i], Mul(args.accel_merged[i], args.dt))
        /\ args.dt = Zero => out = args.prev_velocity

\* dt = 0 with a nonzero velocity and a nonzero acceleration
C7_Witness ==
    /\ Returned("merge_velocity")
    /\ args.dt = Zero
    /\ args.prev_velocity # Zero3
    /\ args.accel_merged # Zero3
    /\ out = args.prev_velocity

-----------------------------------------------------------------------------
(* Claims about the chain of merge_main calls *)

\* the call that produced state was merge_main(prev_state, new_measurements)
Stepped == steps > 0

\* the acceleration merge_accel derives from the gravity model in the
\* scenario: accel_nc - G_E * p / |p|^3 with the identity attitude
ScenarioAccelCalculated ==
    VSub(ScenarioMeasurement.accel_nc,
         VDiv(Scale(G_E, ScenarioState.position), Pow3(norm(ScenarioState.position))))

\* C8: merge_main on the scenario's prev_state and measurement returns the
\* attitude [1,0,0,0], a position z below the previous one, a negative
\* velocity z, and has merged the acceleration as the mean of the measured
\* accel_c and the gravity-model-derived value (the velocity, from rest and
\* with dt = 1, is that merged acceleration).
C8_ScenarioStep ==
    (Stepped /\ prev_state = ScenarioState /\ new_measurements = ScenarioMeasurement) =>
        /\ state.attitude = Identity
        /\ Less(state.position[2], ScenarioState.position[2])
        /\ Less(state.velocity[2], Zero)
        /\ state.velocity = Scale(Half, VAdd(ScenarioAccelC, ScenarioAccelCalculated))

\* C10: the time of the state a merge_main call returns is the time of the
\* measurement it consumed, prev_state.time + (measurement.time -
\* prev_state.time), for positive, zero and negative dt; the time goes back
\* when the measurement is earlier than the previous state.
C10_TimeFollowsMeasurement ==
    Stepped =>
        /\ state.time = new_measurements.time
        /\ state.time = Add(prev_state.time, Sub(new_measurements.time, prev_state.time))
        /\ Less(new_measurements.time, prev_state.time) => Less(state.time, prev_state.time)

\* the second call of a chain consumed a measurement earlier than its
\* prev_state, and the time went back
C10_Witness ==
    /\ steps = 2
    /\ Less(Zero, prev_state.time)
    /\ Less(new_measurements.time, prev_state.time)
    /\ state.time = new_measurements.time
    /\ Less(state.time, prev_state.time)

=============================================================================
